---- MODULE Spec2Model ----
\* Model of the code-execution service: the request handler compileCode
\* (server/src/controllers/compilerController.ts) and the compiler service
\* (isSupportedLanguage, checkSyntax, executeCode, the eight execution
\* backends and simulateExecution).
\*
\* Strings of the program that the code inspects character by character
\* (language identifiers, source code) are sequences of one-character strings.
\* Texts the code only passes around (messages, captured streams) are records
\* built by Str, StdoutOf, StderrOf and Null.
EXTENDS Integers, Sequences, FiniteSets, TLC

\* ------------------------------------------------------------------ bounds
MaxDirs == 2
MaxTime == 5
\* longest javascript source of the syntax-check runs, in characters
MaxJsLen == 4
\* most lines and deepest indentation of their python sources
MaxPyLines == 3
MaxIndent == 7
\* longest C source of the syntax-check runs, in tokens
MaxCTokens == 4

\* ------------------------------------------------- configuration constants
\* EXECUTION_TIMEOUT in clock ticks (the value is read from the environment).
EXECUTION_TIMEOUT == 2

\* ---------------------------------------------------------- string helpers
WhiteSpace == {" ", "\t", "\n", "\r"}
LineTerminators == {"\n", "\r"}
UpperCase == <<"A", "B", "C", "D", "E", "F", "G", "H", "I", "J", "K", "L", "M",
               "N", "O", "P", "Q", "R", "S", "T", "U", "V", "W", "X", "Y", "Z">>
LowerCase == <<"a", "b", "c", "d", "e", "f", "g", "h", "i", "j", "k", "l", "m",
               "n", "o", "p", "q", "r", "s", "t", "u", "v", "w", "x", "y", "z">>
Digits == {"0", "1", "2", "3", "4", "5", "6", "7", "8", "9"}

\* the character U+0060 (written with a name: the grave accent cannot be
\* written inside a TLA+ string)
BackTick == "U+0060"

\* \w of a regular expression
WordChars ==
  {UpperCase[i] : i \in 1..26} \cup {LowerCase[i] : i \in 1..26} \cup Digits \cup {"_"}

\* String.prototype.toLowerCase, one character
LowerChar(ch) ==
  IF \E i \in 1..26 : UpperCase[i] = ch
  THEN LowerCase[CHOOSE i \in 1..26 : UpperCase[i] = ch]
  ELSE ch

toLowerCase(s) == [i \in 1..Len(s) |-> LowerChar(s[i])]

\* String.prototype.trimStart
trimStart(s) ==
  IF \A i \in 1..Len(s) : s[i] \in WhiteSpace
  THEN << >>
  ELSE SubSeq(s, CHOOSE k \in 1..Len(s) :
                   /\ s[k] \notin WhiteSpace
                   /\ \A j \in 1..(k - 1) : s[j] \in WhiteSpace,
              Len(s))

\* String.prototype.trimEnd
trimEnd(s) ==
  IF \A i \in 1..Len(s) : s[i] \in WhiteSpace
  THEN << >>
  ELSE SubSeq(s, 1, CHOOSE k \in 1..Len(s) :
                      /\ s[k] \notin WhiteSpace
                      /\ \A j \in (k + 1)..Len(s) : s[j] \in WhiteSpace)

\* no trimming at all
trim_None(s) == s

\* String.prototype.trim
trim(s) == trimEnd(trimStart(s))

\* p occurs in s at index i
MatchAt(s, p, i) ==
  /\ i >= 1
  /\ i + Len(p) - 1 <= Len(s)
  /\ SubSeq(s, i, i + Len(p) - 1) = p

\* String.prototype.includes
includes(s, p) == \E i \in 1..(Len(s) + 1) : MatchAt(s, p, i)

\* String.prototype.startsWith
startsWith(s, p) == MatchAt(s, p, 1)

\* number of occurrences of the character ch in s: (s.match(/ch/g) || []).length
CountChar(s, ch) == Cardinality({i \in 1..Len(s) : s[i] = ch})

\* ------------------------------------------------------- language registry
SUPPORTED_LANGUAGES ==
  { <<"c">>, <<"c", "p", "p">>, <<"p", "y", "t", "h", "o", "n">>,
    <<"j", "a", "v", "a", "s", "c", "r", "i", "p", "t">>,
    <<"t", "y", "p", "e", "s", "c", "r", "i", "p", "t">>,
    <<"j", "a", "v", "a">>, <<"p", "h", "p">>, <<"g", "o">>,
    <<"h", "t", "m", "l">>, <<"c", "s", "s">> }

\* trimming without the change of case
normalizeLanguageId_NoLowerCase(language) == trim(language)

normalizeLanguageId(language) == trim(toLowerCase(language))

isSupportedLanguage(language) == normalizeLanguageId(language) \in SUPPORTED_LANGUAGES

\* ------------------------------------------------------------------- texts
\* A text value the code passes around without looking inside: a literal or
\* template s with its interpolated arguments (of: a program string, typ, n),
\* a captured stream of the program whose source is `of`, or null.
Text(kind, s, of, typ, n) == [kind |-> kind, s |-> s, of |-> of, typ |-> typ, n |-> n]
Str(s) == Text("str", s, << >>, "", 0)
StrOf(s, of) == Text("str", s, of, "", 0)
Null == Text("null", "", << >>, "", 0)
Empty == Str("")
StdoutOf(src) == Text("stdout", "", src, "", 0)
StderrOf(src) == Text("stderr", "", src, "", 0)

\* JavaScript truthiness of a text (x || y picks y when x is '' or null)
Truthy(t) == t # Null /\ t # Empty
OrElse(t, u) == IF Truthy(t) THEN t ELSE u

\* ------------------------------------------------------------- checkSyntax
\* index of the quote closing a literal opened just before j, 0 when the
\* pattern  q [^q\\]* (?: \\. [^q\\]* )* q  does not match
RECURSIVE QuotedEnd(_, _, _)
QuotedEnd(s, q, j) ==
  IF j > Len(s) THEN 0
  ELSE IF s[j] = q THEN j
  ELSE IF s[j] = "\\"
       THEN IF j + 1 <= Len(s) /\ s[j + 1] \notin LineTerminators
            THEN QuotedEnd(s, q, j + 2)
            ELSE 0
       ELSE QuotedEnd(s, q, j + 1)

\* s.replace(/q[^q\\]*(?:\\.[^q\\]*)*q/g, 'qq') from index i on
RECURSIVE ReplaceQuoted(_, _, _)
ReplaceQuoted(s, q, i) ==
  IF i > Len(s) THEN << >>
  ELSE IF s[i] = q /\ QuotedEnd(s, q, i + 1) # 0
       THEN <<q, q>> \o ReplaceQuoted(s, q, QuotedEnd(s, q, i + 1) + 1)
       ELSE <<s[i]>> \o ReplaceQuoted(s, q, i + 1)

\* index of the first line terminator at or after j, Len(s) + 1 when none
RECURSIVE LineEnd(_, _)
LineEnd(s, j) ==
  IF j > Len(s) \/ s[j] \in LineTerminators THEN j ELSE LineEnd(s, j + 1)

\* s.replace(/\/\/.*$/gm, '') from index i on
RECURSIVE RemoveLineComments(_, _)
RemoveLineComments(s, i) ==
  IF i > Len(s) THEN << >>
  ELSE IF MatchAt(s, <<"/", "/">>, i)
       THEN RemoveLineComments(s, LineEnd(s, i + 2))
       ELSE <<s[i]>> \o RemoveLineComments(s, i + 1)

\* index of the first "*/" at or after j, 0 when none
RECURSIVE BlockEnd(_, _)
BlockEnd(s, j) ==
  IF j + 1 > Len(s) THEN 0
  ELSE IF MatchAt(s, <<"*", "/">>, j) THEN j
  ELSE BlockEnd(s, j + 1)

\* s.replace(/\/\*[\s\S]*?\*\//g, '') from index i on
RECURSIVE RemoveBlockComments(_, _)
RemoveBlockComments(s, i) ==
  IF i > Len(s) THEN << >>
  ELSE IF MatchAt(s, <<"/", "*">>, i) /\ BlockEnd(s, i + 2) # 0
       THEN RemoveBlockComments(s, BlockEnd(s, i + 2) + 2)
       ELSE <<s[i]>> \o RemoveBlockComments(s, i + 1)

\* cCodeWithoutStrings / jsCodeWithoutStrings
CodeWithoutStrings(code) ==
  RemoveBlockComments(
    RemoveLineComments(
      ReplaceQuoted(ReplaceQuoted(code, "\"", 1), "'", 1), 1), 1)

\* the brace comparison with >= in place of >
MissingClosingBrace_OrEqual(code) ==
  CountChar(CodeWithoutStrings(code), "{") >= CountChar(CodeWithoutStrings(code), "}")

\* more '{' than '}' once strings and comments are removed
MissingClosingBrace(code) ==
  CountChar(CodeWithoutStrings(code), "{") > CountChar(CodeWithoutStrings(code), "}")

\* code.split('\n') from index i on, cur being the line read so far
RECURSIVE SplitLines(_, _, _)
SplitLines(s, i, cur) ==
  IF i > Len(s) THEN <<cur>>
  ELSE IF s[i] = "\n" THEN <<cur>> \o SplitLines(s, i + 1, << >>)
  ELSE SplitLines(s, i + 1, Append(cur, s[i]))

\* the lines of the python check without the filter of blank lines
PythonLines_KeepsBlank(code) == SplitLines(code, 1, << >>)

\* the lines of the python check: non-blank lines
PythonLines(code) == SelectSeq(SplitLines(code, 1, << >>), LAMBDA l : Len(trim(l)) > 0)

\* line.length - line.trimStart().length
IndentOf(line) == Len(line) - Len(trimStart(line))

\* the loop of the python check from line k on; TRUE when it sets
\* inconsistentIndentation
RECURSIVE InconsistentFrom(_, _, _)
InconsistentFrom(lines, k, previousIndent) ==
  IF k > Len(lines) THEN FALSE
  ELSE IF startsWith(trim(lines[k]), <<"#">>)
       THEN InconsistentFrom(lines, k + 1, previousIndent)
       ELSE LET indent == IndentOf(lines[k]) IN
            IF indent > 0 /\ previousIndent > 0
               /\ \/ (indent % 4 # 0 /\ indent % 2 # 0)
                  \/ /\ indent > previousIndent
                     /\ (indent - previousIndent) % 2 # 0
                     /\ (indent - previousIndent) % 4 # 0
            THEN TRUE
            ELSE InconsistentFrom(lines, k + 1,
                                  IF indent > 0 THEN indent ELSE previousIndent)

inconsistentIndentation(code) == InconsistentFrom(PythonLines(code), 1, 0)

\* state of the javascript/typescript string scan before the loop
ScanInit ==
  [inSingleQuote |-> FALSE, inDoubleQuote |-> FALSE, inTemplateLiteral |-> FALSE,
   escapeNext |-> FALSE, stringStartLine |-> 0, currentLine |-> 1, stringType |-> ""]

\* the scan loop in which a quote of any kind closes the open string
ScanStep_AnyQuoteCloses(st, char) ==
  LET line == IF char = "\n" THEN st.currentLine + 1 ELSE st.currentLine
      s1 == [st EXCEPT !.currentLine = line]
  IN  IF st.escapeNext THEN [s1 EXCEPT !.escapeNext = FALSE]
      ELSE IF char = "\\" THEN [s1 EXCEPT !.escapeNext = TRUE]
      ELSE IF ~st.inSingleQuote /\ ~st.inDoubleQuote /\ ~st.inTemplateLiteral
           THEN IF char = "'"
                THEN [s1 EXCEPT !.inSingleQuote = TRUE, !.stringStartLine = line,
                                !.stringType = "single quote"]
                ELSE IF char = "\""
                THEN [s1 EXCEPT !.inDoubleQuote = TRUE, !.stringStartLine = line,
                                !.stringType = "double quote"]
                ELSE IF char = BackTick
                THEN [s1 EXCEPT !.inTemplateLiteral = TRUE, !.stringStartLine = line,
                                !.stringType = "template literal"]
                ELSE s1
      ELSE IF char \in {"'", "\"", BackTick}
           THEN [s1 EXCEPT !.inSingleQuote = FALSE, !.inDoubleQuote = FALSE,
                           !.inTemplateLiteral = FALSE]
      ELSE s1

\* the scan loop with the line counter placed after the escape handling
ScanStep_LineAfterEscape(st, char) ==
  LET line == IF char = "\n" /\ ~st.escapeNext THEN st.currentLine + 1 ELSE st.currentLine
      s1 == [st EXCEPT !.currentLine = line]
  IN  IF st.escapeNext THEN [s1 EXCEPT !.escapeNext = FALSE]
      ELSE IF char = "\\" THEN [s1 EXCEPT !.escapeNext = TRUE]
      ELSE IF ~st.inSingleQuote /\ ~st.inDoubleQuote /\ ~st.inTemplateLiteral
           THEN IF char = "'"
                THEN [s1 EXCEPT !.inSingleQuote = TRUE, !.stringStartLine = line,
                                !.stringType = "single quote"]
                ELSE IF char = "\""
                THEN [s1 EXCEPT !.inDoubleQuote = TRUE, !.stringStartLine = line,
                                !.stringType = "double quote"]
                ELSE IF char = BackTick
                THEN [s1 EXCEPT !.inTemplateLiteral = TRUE, !.stringStartLine = line,
                                !.stringType = "template literal"]
                ELSE s1
      ELSE IF st.inSingleQuote /\ char = "'" THEN [s1 EXCEPT !.inSingleQuote = FALSE]
      ELSE IF st.inDoubleQuote /\ char = "\"" THEN [s1 EXCEPT !.inDoubleQuote = FALSE]
      ELSE IF st.inTemplateLiteral /\ char = BackTick THEN [s1 EXCEPT !.inTemplateLiteral = FALSE]
      ELSE s1

\* one iteration of the scan loop on the character char
ScanStep(st, char) ==
  LET line == IF char = "\n" THEN st.currentLine + 1 ELSE st.currentLine
      s1 == [st EXCEPT !.currentLine = line]
  IN  IF st.escapeNext THEN [s1 EXCEPT !.escapeNext = FALSE]
      ELSE IF char = "\\" THEN [s1 EXCEPT !.escapeNext = TRUE]
      ELSE IF ~st.inSingleQuote /\ ~st.inDoubleQuote /\ ~st.inTemplateLiteral
           THEN IF char = "'"
                THEN [s1 EXCEPT !.inSingleQuote = TRUE, !.stringStartLine = line,
                                !.stringType = "single quote"]
                ELSE IF char = "\""
                THEN [s1 EXCEPT !.inDoubleQuote = TRUE, !.stringStartLine = line,
                                !.stringType = "double quote"]
                ELSE IF char = BackTick
                THEN [s1 EXCEPT !.inTemplateLiteral = TRUE, !.stringStartLine = line,
                                !.stringType = "template literal"]
                ELSE s1
      ELSE IF st.inSingleQuote /\ char = "'" THEN [s1 EXCEPT !.inSingleQuote = FALSE]
      ELSE IF st.inDoubleQuote /\ char = "\"" THEN [s1 EXCEPT !.inDoubleQuote = FALSE]
      ELSE IF st.inTemplateLiteral /\ char = BackTick THEN [s1 EXCEPT !.inTemplateLiteral = FALSE]
      ELSE s1

\* state of the scan after the first i characters of code
RECURSIVE ScanTo(_, _)
ScanTo(code, i) == IF i = 0 THEN ScanInit ELSE ScanStep(ScanTo(code, i - 1), code[i])

SyntaxOk == [hasError |-> FALSE, errorMessage |-> Null]
SyntaxError(msg) == [hasError |-> TRUE, errorMessage |-> msg]

L_c == <<"c">>
L_cpp == <<"c", "p", "p">>
L_python == <<"p", "y", "t", "h", "o", "n">>
L_javascript == <<"j", "a", "v", "a", "s", "c", "r", "i", "p", "t">>
L_typescript == <<"t", "y", "p", "e", "s", "c", "r", "i", "p", "t">>
L_java == <<"j", "a", "v", "a">>
L_php == <<"p", "h", "p">>
L_go == <<"g", "o">>
L_html == <<"h", "t", "m", "l">>
L_css == <<"c", "s", "s">>

checkSyntax(code, languageId) ==
  IF trim(code) = << >>
  THEN SyntaxError(Str("No code to compile. Please enter some code."))
  ELSE IF languageId \in {L_c, L_cpp}
  THEN IF ~includes(code, <<"m", "a", "i", "n", "(">>)
          /\ ~includes(code, <<"m", "a", "i", "n", " ", "(">>)
       THEN SyntaxError(Str("Error: missing 'main' function. Every C/C++ program must have a main function."))
       ELSE IF includes(code, <<"p", "r", "i", "n", "t", "f", "(">>) /\ ~includes(code, <<";">>)
       THEN SyntaxError(Str("Syntax Error: missing semicolon ';'"))
       ELSE IF MissingClosingBrace(code)
       THEN SyntaxError(Str("Error: missing closing curly brace '}'"))
       ELSE SyntaxOk
  ELSE IF languageId = L_python
  THEN IF inconsistentIndentation(code)
       THEN SyntaxError(Str("IndentationError: inconsistent indentation detected"))
       ELSE SyntaxOk
  ELSE IF languageId \in {L_javascript, L_typescript}
  THEN IF MissingClosingBrace(code)
       THEN SyntaxError(Str("SyntaxError: missing closing curly brace '}'"))
       ELSE LET end == ScanTo(code, Len(code)) IN
            IF end.inSingleQuote \/ end.inDoubleQuote \/ end.inTemplateLiteral
            THEN SyntaxError(Text("str",
                   "SyntaxError: unterminated ${stringType} starting at line ${stringStartLine}",
                   << >>, end.stringType, end.stringStartLine))
            ELSE SyntaxOk
  ELSE SyntaxOk

\* ------------------------------------------------------------------ inputs
\* a JavaScript value of a request body field: a string (v), undefined (the
\* field is missing) or a truthy value that is not a string (a number)
JsString(v) == [t |-> "string", v |-> v]
Undefined == [t |-> "undefined", v |-> << >>]
NonString == [t |-> "number", v |-> << >>]

\* !x of JavaScript
Falsy(x) == x.t = "undefined" \/ (x.t = "string" /\ x.v = << >>)

CodeMain == <<"m", "a", "i", "n", "(", ")", "{", "}">>
CodeClassA == <<"p", "u", "b", "l", "i", "c", " ", "c", "l", "a", "s", "s", " ", "A", "{", "}">>

Codes == { << >>, <<" ">>, CodeMain, CodeClassA }

Languages ==
  SUPPORTED_LANGUAGES \cup
  { <<"P", "y", "t", "h", "o", "n">>, <<" ", "c", " ">>, <<"J", "A", "V", "A">>,
    <<"r", "u", "b", "y">>, << >> }

CodeInputs == {JsString(c) : c \in Codes} \cup {Undefined, NonString}
LanguageInputs == {JsString(l) : l \in Languages} \cup {Undefined, NonString}

\* --------------------------------------------------------------- the state
DirNames == 1..MaxDirs

VARIABLES
  now,      \* the wall clock read by Date.now()
  alive,    \* the server process is running
  fs,       \* the temporary directories: DirNames -> directory
  tracked,  \* the directories temp.track() removes when the process exits
  req       \* the calls: a sequence, the state of each compileCode / executeCode call

vars == <<now, alive, fs, tracked, req>>

Reqs == DOMAIN req

NoDir == [exists |-> FALSE, affix |-> "", srcName |-> Null, hasSrc |-> FALSE, src |-> << >>,
          hasArtifact |-> FALSE, artifact |-> << >>]

NoResult == [output |-> Null, error |-> Null, executionTime |-> 0]
NoResponse == [status |-> 0, success |-> FALSE, output |-> Null, error |-> Null,
               executionTime |-> 0]

\* no subprocess of the phase has ended yet
NoOutcome == [ok |-> FALSE, cause |-> "none", stdout |-> Empty, stderr |-> Empty]

IdleReq ==
  [pc |-> "idle", via |-> "", code |-> Undefined, language |-> Undefined,
   startTime |-> 0, backend |-> "", tmpDir |-> 0, mainClassName |-> << >>,
   procStart |-> 0, spawned |-> << >>, commands |-> << >>,
   compileOut |-> NoOutcome, runOut |-> NoOutcome,
   threw |-> FALSE, thrown |-> [isError |-> FALSE, message |-> Null],
   hasResult |-> FALSE, result |-> NoResult,
   executeCalls |-> 0, response |-> NoResponse, responses |-> 0,
   syntaxCheck |-> SyntaxOk, supported |-> FALSE]

\* a call about to be made: an HTTP request with the fields code and language
\* in its body, or a call of the exported executeCode with two strings
Pending(via, code, language) ==
  [IdleReq EXCEPT !.via = via, !.code = code, !.language = language]

Calls ==
  {Pending("http", c, l) : c \in CodeInputs, l \in LanguageInputs}
  \cup {Pending("direct", JsString(c), JsString(l)) : c \in Codes, l \in Languages}

\* the calls of the runs with two calls in flight at once
ConcurrentCalls ==
  { Pending("http", JsString(CodeMain), JsString(L_c)),
    Pending("direct", JsString(CodeMain), JsString(L_python)),
    Pending("direct", JsString(CodeClassA), JsString(L_python)) }

Started ==
  /\ now = 0
  /\ alive = TRUE
  /\ fs = [d \in DirNames |-> NoDir]
  /\ tracked = {}

\* the server has started and one call is about to be made
Init == Started /\ req \in {<<c>> : c \in Calls}

\* the server has started and two calls are about to be made
InitConcurrent == Started /\ req \in {<<c1, c2>> : c1 \in ConcurrentCalls, c2 \in ConcurrentCalls}

\* ------------------------------------------- inputs of the exported checks
\* all sequences of n, and of at most n, elements of set
RECURSIVE SeqsOfLen(_, _)
SeqsOfLen(set, n) ==
  IF n = 0 THEN {<< >>}
  ELSE {Append(s, x) : s \in SeqsOfLen(set, n - 1), x \in set}
SeqsUpTo(set, n) == UNION {SeqsOfLen(set, k) : k \in 0..n}

\* the concatenation of a sequence of strings
RECURSIVE Concat(_)
Concat(ss) == IF ss = << >> THEN << >> ELSE Head(ss) \o Concat(Tail(ss))

\* the lines joined by newlines
RECURSIVE JoinLines(_)
JoinLines(ls) ==
  IF Len(ls) = 1 THEN ls[1] ELSE ls[1] \o <<"\n">> \o JoinLines(Tail(ls))

JsAlphabet == {"'", "\"", BackTick, "\\", "\n", "a", "{", "}"}
JsSources(n) == SeqsUpTo(JsAlphabet, n)

Spaces(n) == [i \in 1..n |-> " "]
PyLineInputs(indent) ==
  {Spaces(n) \o <<"a">> : n \in 0..indent}
  \cup {<<"#">>, Spaces(3) \o <<"#">>, << >>, <<" ">>}
PySources(lines, indent) ==
  {JoinLines(ls) : ls \in SeqsUpTo(PyLineInputs(indent), lines) \ {<< >>}}

CTokens ==
  { <<"m", "a", "i", "n", "(">>, <<"m", "a", "i", "n", " ", "(">>,
    <<"p", "r", "i", "n", "t", "f", "(">>, <<";">>, <<"{">>, <<"}">>, <<"\"">> }
CSources(n) == {Concat(ts) : ts \in SeqsUpTo(CTokens, n)}

\* sources for every language: empty, blank, and one that each heuristic flags
AnySources ==
  { << >>, <<" ">>, <<"\n", "\t">>, <<"x">>, <<"'">>, <<"{">>,
    <<" ", " ", "a", "\n", " ", " ", " ", "b">>, CodeMain, CodeClassA }

\* s with the letters at the positions of mask in upper case
UpperChar(ch) ==
  IF \E i \in 1..26 : LowerCase[i] = ch
  THEN UpperCase[CHOOSE i \in 1..26 : LowerCase[i] = ch]
  ELSE ch
CaseVariants(s) ==
  {[k \in 1..Len(s) |-> IF m[k] THEN UpperChar(s[k]) ELSE s[k]] :
     m \in [1..Len(s) -> BOOLEAN]}
Paddings == {<< >>, <<" ">>, <<"\t">>, <<"\n", " ">>}
Padded(pads, set) == {a \o s \o b : a \in pads, s \in set, b \in pads}

\* the identifiers in every letter case, and padded in lower and upper case
Spellings(ids, pads) ==
  UNION {CaseVariants(l) : l \in ids}
  \cup Padded(pads, ids \cup {[k \in 1..Len(l) |-> UpperChar(l[k])] : l \in ids})

\* strings outside the registry
OtherIdentifiers(pads) ==
  Padded(pads, { << >>, <<"r", "u", "b", "y">>, <<"c", " ", "p", "p">>, <<"c", "p">>,
           <<"g", "o", "o">>, <<"h", "t", "m">>, <<"c", "+", "+">>, <<"j", "s">>,
           <<"p", "y", "t", "h", "o", "n", "3">> })

\* identifiers for the syntax check: the registry, other spellings, others
AnyLanguages ==
  Languages \cup
  { <<"C">>, <<"C", "P", "P">>, <<" ", "j", "a", "v", "a", "s", "c", "r", "i", "p", "t", " ">>,
    <<"T", "y", "p", "e", "S", "c", "r", "i", "p", "t">>, <<"G", "o">>, <<"H", "T", "M", "L">> }

\* a call of the exported checkSyntax, and one of isSupportedLanguage
CheckSyntaxCall(code, languageId) ==
  Pending("checkSyntax", JsString(code), JsString(languageId))
IsSupportedCall(language) ==
  Pending("isSupportedLanguage", JsString(<< >>), JsString(language))

\* the server has started and one of the two checks is about to be called
InitFunctions ==
  /\ Started
  /\ \/ \E c \in JsSources(MaxJsLen) : req = <<CheckSyntaxCall(c, L_javascript)>>
     \/ \E c \in JsSources(MaxJsLen - 1) : req = <<CheckSyntaxCall(c, L_typescript)>>
     \/ \E c \in PySources(MaxPyLines, MaxIndent) : req = <<CheckSyntaxCall(c, L_python)>>
     \/ \E c \in CSources(MaxCTokens) : req = <<CheckSyntaxCall(c, L_c)>>
     \/ \E c \in CSources(MaxCTokens - 1) : req = <<CheckSyntaxCall(c, L_cpp)>>
     \/ \E c \in AnySources, l \in AnyLanguages : req = <<CheckSyntaxCall(c, l)>>
     \/ \E l \in Spellings(SUPPORTED_LANGUAGES, Paddings) : req = <<IsSupportedCall(l)>>
     \/ \E l \in OtherIdentifiers(Paddings) : req = <<IsSupportedCall(l)>>

\* ------------------------------------------------------- simulateExecution
\* first index at or after j that holds no white space (Len(s) + 1 when none)
RECURSIVE SkipWs(_, _)
SkipWs(s, j) == IF j > Len(s) \/ s[j] \notin WhiteSpace THEN j ELSE SkipWs(s, j + 1)

\* first index at or after j that holds a character of set, 0 when none
RECURSIVE IndexOfAny(_, _, _)
IndexOfAny(s, j, set) ==
  IF j > Len(s) THEN 0
  ELSE IF s[j] \in set THEN j
  ELSE IndexOfAny(s, j + 1, set)

Quotes == {"\"", "'"}

\* the match of  kw \s* open \s* "([^"]*)"  at index i: where the opening
\* quote stands (0 when there is no match)
LiteralQuoteAt(s, i, kw, open) ==
  LET b == SkipWs(s, i + Len(kw))
      c == SkipWs(s, b + Len(open))
  IN  IF /\ MatchAt(s, kw, i)
         /\ MatchAt(s, open, b)
         /\ c <= Len(s) /\ s[c] = "\""
         /\ IndexOfAny(s, c + 1, {"\""}) # 0
      THEN c ELSE 0

\* the loop  while ((match = printRegex.exec(code)) !== null) output += match[1] + "\n"
RECURSIVE ExtractLiterals(_, _, _, _)
ExtractLiterals(s, i, kw, open) ==
  IF i > Len(s) THEN << >>
  ELSE LET c == LiteralQuoteAt(s, i, kw, open) IN
       IF c # 0
       THEN LET e == IndexOfAny(s, c + 1, {"\""}) IN
            SubSeq(s, c + 1, e - 1) \o <<"\n">> \o ExtractLiterals(s, e + 1, kw, open)
       ELSE ExtractLiterals(s, i + 1, kw, open)

\* the match of  kw \s* \( \s* (?: f?["']([^"']*)["'] | ([^)]*)\s* ) \)  at
\* index i (f? only when allowF): [found, text = match[1] || match[2] || "", end]
CallMatchAt(s, i, kw, allowF) ==
  LET b == SkipWs(s, i + Len(kw))
      c == SkipWs(s, b + 1)
      q == IF allowF /\ c + 1 <= Len(s) /\ s[c] = "f" /\ s[c + 1] \in Quotes
           THEN c + 1 ELSE c
      e == IndexOfAny(s, q + 1, Quotes)
      p == IndexOfAny(s, c, {")"})
      head == MatchAt(s, kw, i) /\ b <= Len(s) /\ s[b] = "("
      quoted == /\ head
                /\ q <= Len(s) /\ s[q] \in Quotes
                /\ e # 0
                /\ e + 1 <= Len(s) /\ s[e + 1] = ")"
  IN  IF quoted THEN [found |-> TRUE, text |-> SubSeq(s, q + 1, e - 1), end |-> e + 1]
      ELSE IF head /\ p # 0
           THEN [found |-> TRUE, text |-> SubSeq(s, c, p - 1), end |-> p]
           ELSE [found |-> FALSE, text |-> << >>, end |-> 0]

RECURSIVE ExtractCalls(_, _, _, _)
ExtractCalls(s, i, kw, allowF) ==
  IF i > Len(s) THEN << >>
  ELSE LET m == CallMatchAt(s, i, kw, allowF) IN
       IF m.found
       THEN m.text \o <<"\n">> \o ExtractCalls(s, m.end + 1, kw, allowF)
       ELSE ExtractCalls(s, i + 1, kw, allowF)

\* the text collected by the switch of simulateExecution (<< >> for '')
SimulatedText(code, languageId) ==
  IF languageId = L_c
  THEN ExtractLiterals(code, 1, <<"p", "r", "i", "n", "t", "f">>, <<"(">>)
  ELSE IF languageId = L_cpp
  THEN ExtractLiterals(code, 1, <<"c", "o", "u", "t">>, <<"<", "<">>)
  ELSE IF languageId = L_python
  THEN ExtractCalls(code, 1, <<"p", "r", "i", "n", "t">>, TRUE)
  ELSE ExtractCalls(code, 1,
         <<"c", "o", "n", "s", "o", "l", "e", ".", "l", "o", "g">>, FALSE)

MsgFrontend == Str("Frontend code doesn't produce console output directly.\nRendering in the preview panel.")
MsgNotImplemented == Str("Language execution simulation not implemented yet.\nProgram executed successfully.")
MsgNoOutput == Str("Program executed successfully with no output.")

\* simulateExecution without the placeholder of its last branch
simulateExecution_NoPlaceholder(code, languageId) ==
  LET output ==
        IF languageId \in {L_c, L_cpp, L_python, L_javascript, L_typescript}
        THEN IF SimulatedText(code, languageId) = << >>
             THEN Empty
             ELSE StrOf("${output}", SimulatedText(code, languageId))
        ELSE IF languageId \in {L_html, L_css} THEN MsgFrontend
        ELSE Empty
  IN  [output |-> IF ~Truthy(output) /\ languageId # L_html /\ languageId # L_css
                  THEN MsgNoOutput ELSE output,
       error |-> Null,
       executionTime |-> 0]

\* simulateExecution(code, languageId) called at time t (it returns at once)
simulateExecution(code, languageId) ==
  LET output ==
        IF languageId \in {L_c, L_cpp, L_python, L_javascript, L_typescript}
        THEN IF SimulatedText(code, languageId) = << >>
             THEN Empty
             ELSE StrOf("${output}", SimulatedText(code, languageId))
        ELSE IF languageId \in {L_html, L_css} THEN MsgFrontend
        ELSE MsgNotImplemented
  IN  [output |-> IF ~Truthy(output) /\ languageId # L_html /\ languageId # L_css
                  THEN MsgNoOutput ELSE output,
       error |-> Null,
       executionTime |-> 0]

\* ---------------------------------------------------------------- backends
\* Route without the case 'go'
Route_NoGoCase(language) ==
  CASE language = L_c -> "compileAndRunC"
    [] language = L_cpp -> "compileAndRunCpp"
    [] language = L_python -> "runPython"
    [] language = L_javascript -> "runJavaScript"
    [] language = L_typescript -> "runTypeScript"
    [] language = L_java -> "compileAndRunJava"
    [] language = L_php -> "runPhp"
    [] OTHER -> "simulateExecution"

\* executeCode: the switch on the language identifier
Route(language) ==
  CASE language = L_c -> "compileAndRunC"
    [] language = L_cpp -> "compileAndRunCpp"
    [] language = L_python -> "runPython"
    [] language = L_javascript -> "runJavaScript"
    [] language = L_typescript -> "runTypeScript"
    [] language = L_java -> "compileAndRunJava"
    [] language = L_php -> "runPhp"
    [] language = L_go -> "compileAndRunGo"
    [] OTHER -> "simulateExecution"

Backends == {"compileAndRunC", "compileAndRunCpp", "runPython", "runJavaScript",
             "runTypeScript", "compileAndRunJava", "runPhp", "compileAndRunGo"}

\* the backends that start a compiler and then the program it produced
TwoStep == {"compileAndRunC", "compileAndRunCpp", "compileAndRunJava"}

\* the affix handed to temp.mkdirSync
Affix(backend) ==
  CASE backend = "compileAndRunC" -> "c-compiler"
    [] backend = "compileAndRunCpp" -> "cpp-compiler"
    [] backend = "runPython" -> "python-runner"
    [] backend = "runJavaScript" -> "javascript-runner"
    [] backend = "runTypeScript" -> "typescript-runner"
    [] backend = "compileAndRunJava" -> "java-compiler"
    [] backend = "runPhp" -> "php-runner"
    [] OTHER -> "go-compiler"

\* SourceName with the fixed name main.java for java
SourceName_JavaMain(backend, mainClassName) ==
  CASE backend = "compileAndRunC" -> Str("main.c")
    [] backend = "compileAndRunCpp" -> Str("main.cpp")
    [] backend = "runPython" -> Str("main.py")
    [] backend = "runJavaScript" -> Str("main.js")
    [] backend = "runTypeScript" -> Str("main.ts")
    [] backend = "compileAndRunJava" -> Str("main.java")
    [] backend = "runPhp" -> Str("main.php")
    [] OTHER -> Str("main.go")

\* the name of the source file inside the workspace
SourceName(backend, mainClassName) ==
  CASE backend = "compileAndRunC" -> Str("main.c")
    [] backend = "compileAndRunCpp" -> Str("main.cpp")
    [] backend = "runPython" -> Str("main.py")
    [] backend = "runJavaScript" -> Str("main.js")
    [] backend = "runTypeScript" -> Str("main.ts")
    [] backend = "compileAndRunJava" -> StrOf("${mainClassName}.java", mainClassName)
    [] backend = "runPhp" -> Str("main.php")
    [] OTHER -> Str("main.go")

\* compileAndRunJava: code.match(/public\s+class\s+(\w+)/) at index i:
\* the index of the first character of the class name, 0 when no match
ClassNameAt(code, i) ==
  LET a == SkipWs(code, i + 6)
      b == SkipWs(code, a + 5)
  IN  IF /\ MatchAt(code, <<"p", "u", "b", "l", "i", "c">>, i)
         /\ a > i + 6
         /\ MatchAt(code, <<"c", "l", "a", "s", "s">>, a)
         /\ b > a + 5
         /\ b <= Len(code) /\ code[b] \in WordChars
      THEN b ELSE 0

\* mainClassMatch is not null
HasPublicClass(code) == \E i \in 1..Len(code) : ClassNameAt(code, i) # 0

\* mainClassMatch[1]: the \w+ of the leftmost match
mainClassName(code) ==
  LET i == CHOOSE k \in 1..Len(code) :
             /\ ClassNameAt(code, k) # 0
             /\ \A j \in 1..(k - 1) : ClassNameAt(code, j) = 0
      b == ClassNameAt(code, i)
      e == CHOOSE k \in b..Len(code) :
             /\ \A j \in b..k : code[j] \in WordChars
             /\ (k = Len(code) \/ code[k + 1] \notin WordChars)
  IN  SubSeq(code, b, e)

\* a thrown value or rejection reason: an Error with its message, or a value
\* that is not an Error
ErrorOf(message) == [isError |-> TRUE, message |-> message]
NotAnError == [isError |-> FALSE, message |-> Null]

\* mkdirSync that does not fail on a name that exists
mkdirSync_ReusesName(fsys, d) ==
  IF d = 0 THEN [threw |-> TRUE, error |-> ErrorOf(Str("ENOSPC: no space left on device, mkdir"))]
  ELSE [threw |-> FALSE, error |-> NotAnError]

\* temp.mkdirSync(affix) when the generated name is d: the directory is
\* created, or fs.mkdirSync throws (the name exists; d = 0: the file system
\* refuses)
mkdirSync(fsys, d) ==
  IF d = 0 THEN [threw |-> TRUE, error |-> ErrorOf(Str("ENOSPC: no space left on device, mkdir"))]
  ELSE IF fsys[d].exists
       THEN [threw |-> TRUE, error |-> ErrorOf(Str("EEXIST: file already exists, mkdir"))]
       ELSE [threw |-> FALSE, error |-> NotAnError]

\* the rejection reasons of fs.writeFile
WriteFileErrors == {ErrorOf(Str("ENOSPC: no space left on device, write")), NotAnError}

\* ExecDeadline with a timeout one tick longer than configured
ExecDeadline_Late(procStart) == procStart + EXECUTION_TIMEOUT + 1

\* the options of every execAsync call: the subprocess is killed `timeout`
\* after its start
ExecDeadline(procStart) == procStart + EXECUTION_TIMEOUT

\* the ways the subprocess running the program src ends: exit code 0, or a
\* failure (non-zero exit, killed at the timeout, output over maxBuffer), each
\* with the streams captured so far
ExecOutcomes(src) ==
  [ok : {TRUE}, cause : {"exit"}, stdout : {StdoutOf(src)},
   stderr : {Empty, StderrOf(src)}]
  \cup
  [ok : {FALSE}, cause : {"exit", "timeout", "maxBuffer"},
   stdout : {Empty, StdoutOf(src)}, stderr : {Empty, StderrOf(src)}]

\* the ways the subprocess compiling src ends (the code reads no stdout of it)
CompileOutcomes(src) ==
  [ok : {TRUE}, cause : {"exit"}, stdout : {Empty}, stderr : {Empty, StderrOf(src)}]
  \cup
  [ok : {FALSE}, cause : {"exit", "timeout", "maxBuffer"},
   stdout : {Empty}, stderr : {Empty, StderrOf(src)}]

\* the catch block of a compile step
CompileFailure(out, elapsed) ==
  [output |-> Empty,
   error |-> OrElse(out.stderr, Str("Compilation error")),
   executionTime |-> elapsed]

\* RunFailureText with one text for every backend
RunFailureText_OneText(backend) == Str("Runtime error")

\* the generic text of the catch block of a run step
RunFailureText(backend) ==
  IF backend = "compileAndRunGo" THEN Str("Compilation or runtime error")
  ELSE Str("Runtime error")

\* the catch block of a run step
RunFailure(backend, out, elapsed) ==
  [output |-> OrElse(out.stdout, Empty),
   error |-> OrElse(out.stderr, RunFailureText(backend)),
   executionTime |-> elapsed]

\* RunSuccess that drops the captured standard error
RunSuccess_DropsStderr(out, elapsed) ==
  [output |-> out.stdout, error |-> Null, executionTime |-> elapsed]

\* the return of a run step that succeeded
RunSuccess(out, elapsed) ==
  [output |-> out.stdout,
   error |-> OrElse(out.stderr, Null),
   executionTime |-> elapsed]

\* CatchAll without the instanceof test: error.message of a value that is
\* not an Error is undefined
CatchAll_NoInstanceof(thrown, elapsed) ==
  [output |-> Empty, error |-> thrown.message, executionTime |-> elapsed]

\* executeCode: the catch block
CatchAll(thrown, elapsed) ==
  [output |-> Empty,
   error |-> IF thrown.isError THEN thrown.message ELSE Str("Unknown execution error"),
   executionTime |-> elapsed]

\* -------------------------------------------------------------- compileCode
R400(message) == [status |-> 400, success |-> FALSE, output |-> Null, error |-> message,
                  executionTime |-> 0]
R500(thrown) ==
  [status |-> 500, success |-> FALSE, output |-> Null,
   error |-> IF thrown.isError THEN thrown.message ELSE Str("An unexpected error occurred"),
   executionTime |-> 0]
\* R200 that reports a toolchain failure as a server error
R200_FailsOnError(result) ==
  [status |-> IF result.error # Null THEN 500 ELSE 200,
   success |-> result.error = Null, output |-> result.output,
   error |-> result.error, executionTime |-> result.executionTime]

R200(result) == [status |-> 200, success |-> TRUE, output |-> result.output,
                 error |-> result.error, executionTime |-> result.executionTime]

\* Gates without the syntax check
Gates_NoSyntaxCheck(code, language) ==
  IF Falsy(code) \/ Falsy(language)
  THEN R400(Str("Code and language are required"))
  ELSE IF language.t # "string"
  THEN R500(ErrorOf(Str("language.toLowerCase is not a function")))
  ELSE IF ~isSupportedLanguage(language.v)
  THEN R400(StrOf("Language '${language}' is not supported", language.v))
  ELSE IF code.t # "string"
  THEN R500(ErrorOf(Str("code.trim is not a function")))
  ELSE NoResponse

\* compileCode up to the call of executeCode: the response sent without
\* executing, or NoResponse when the request passed the three checks
Gates(code, language) ==
  IF Falsy(code) \/ Falsy(language)
  THEN R400(Str("Code and language are required"))
  ELSE IF language.t # "string"
  THEN R500(ErrorOf(Str("language.toLowerCase is not a function")))
  ELSE IF ~isSupportedLanguage(language.v)
  THEN R400(StrOf("Language '${language}' is not supported", language.v))
  ELSE IF code.t # "string"
  THEN R500(ErrorOf(Str("code.trim is not a function")))
  ELSE IF checkSyntax(code.v, language.v).hasError
  THEN R400(checkSyntax(code.v, language.v).errorMessage)
  ELSE NoResponse

\* the call r ends: executeCode resolves with result, and compileCode (when it
\* is the caller) sends the 200 response
Resolved(rec, result) ==
  [rec EXCEPT !.pc = "done", !.hasResult = TRUE, !.result = result,
              !.response = IF rec.via = "http" THEN R200(result) ELSE NoResponse,
              !.responses = IF rec.via = "http" THEN @ + 1 ELSE @]

\* a backend step of the call threw: the catch block of executeCode
Caught(rec, thrown) ==
  Resolved([rec EXCEPT !.threw = TRUE, !.thrown = thrown],
           CatchAll(thrown, now - rec.startTime))

\* the command line handed to execAsync: its template, the workspace and the
\* source file its paths lie in, and the entry class of the java run step
Command(backend, phase, tmpDir, className) ==
  [cmd |-> CASE backend = "compileAndRunC" /\ phase = "compiling"
                  -> "gcc ${sourcePath} -o ${outputPath} -lm"
             [] backend = "compileAndRunCpp" /\ phase = "compiling"
                  -> "g++ ${sourcePath} -o ${outputPath} -std=c++17"
             [] backend = "compileAndRunJava" /\ phase = "compiling" -> "javac ${sourcePath}"
             [] backend = "compileAndRunJava" -> "java -cp ${tmpDir} ${mainClassName}"
             [] backend = "runPython" -> "python3 ${sourcePath}"
             [] backend = "runJavaScript" -> "node ${sourcePath}"
             [] backend = "runTypeScript" -> "npx ts-node ${sourcePath}"
             [] backend = "runPhp" -> "php ${sourcePath}"
             [] backend = "compileAndRunGo" -> "go run ${sourcePath}"
             [] OTHER -> "${outputPath}",
   tmpDir |-> tmpDir,
   source |-> SourceName(backend, className),
   mainClassName |-> className]

\* execAsync(...) of the call starts a subprocess for the given phase
Spawned(rec, phase) ==
  [rec EXCEPT !.pc = phase, !.spawned = Append(@, phase), !.procStart = now,
              !.commands = Append(@, Command(rec.backend, phase, rec.tmpDir,
                                             rec.mainClassName))]

\* executeCode(code, language) from its entry to its first await, the
\* generated workspace name being d
executeCode(r, rec, code, language, d) ==
  LET backend == Route(language)
      rec1 == [rec EXCEPT !.startTime = now, !.backend = backend,
                          !.executeCalls = @ + 1]
  IN  IF backend = "simulateExecution"
      THEN /\ req' = [req EXCEPT ![r] = Resolved(rec1, simulateExecution(code, language))]
           /\ UNCHANGED <<fs, tracked>>
      ELSE IF backend = "compileAndRunJava" /\ ~HasPublicClass(code)
      THEN /\ req' = [req EXCEPT ![r] = Resolved(rec1,
                        [output |-> Empty,
                         error |-> Str("No public class found in the code"),
                         executionTime |-> 0])]
           /\ UNCHANGED <<fs, tracked>>
      ELSE IF mkdirSync(fs, d).threw
      THEN /\ req' = [req EXCEPT ![r] = Caught(rec1, mkdirSync(fs, d).error)]
           /\ UNCHANGED <<fs, tracked>>
      ELSE /\ fs' = [fs EXCEPT ![d] = [NoDir EXCEPT !.exists = TRUE,
                                                    !.affix = Affix(backend)]]
           /\ tracked' = tracked \cup {d}
           /\ req' = [req EXCEPT ![r] =
                        [rec1 EXCEPT !.pc = "writing", !.tmpDir = d,
                           !.mainClassName = IF backend = "compileAndRunJava"
                                             THEN mainClassName(code) ELSE << >>]]

\* compileCode without the return after a refusal: it goes on to execute
CompileCode_NoReturn(r) ==
  /\ alive
  /\ req[r].pc = "idle"
  /\ req[r].via = "http"
  /\ LET rec == req[r]
         code == rec.code
         language == rec.language IN
     IF Gates(code, language) # NoResponse
     THEN \E d \in DirNames \cup {0} :
            executeCode(r, [rec EXCEPT !.response = Gates(code, language),
                                       !.responses = @ + 1],
                        code.v, language.v, d)
     ELSE \E d \in DirNames \cup {0} : executeCode(r, rec, code.v, language.v, d)
  /\ UNCHANGED <<now, alive>>

\* POST /api/compiler/compile with body {code, language}
CompileCode(r) ==
  /\ alive
  /\ req[r].pc = "idle"
  /\ req[r].via = "http"
  /\ LET rec == req[r]
         code == rec.code
         language == rec.language IN
     IF Gates(code, language) # NoResponse
     THEN /\ req' = [req EXCEPT ![r] = [rec EXCEPT !.pc = "done",
                                                  !.response = Gates(code, language),
                                                  !.responses = @ + 1]]
          /\ UNCHANGED <<fs, tracked>>
     ELSE \E d \in DirNames \cup {0} : executeCode(r, rec, code.v, language.v, d)
  /\ UNCHANGED <<now, alive>>

\* a call of the exported executeCode by another caller than compileCode
ExecuteCode(r) ==
  /\ alive
  /\ req[r].pc = "idle"
  /\ req[r].via = "direct"
  /\ \E d \in DirNames \cup {0} :
       executeCode(r, req[r], req[r].code.v, req[r].language.v, d)
  /\ UNCHANGED <<now, alive>>

\* await fs.writeFile(sourcePath, code) settles; on success the first
\* subprocess is started
WriteFileDone(r) ==
  /\ alive
  /\ req[r].pc = "writing"
  /\ LET rec == req[r]
         d == rec.tmpDir IN
     \/ /\ fs' = [fs EXCEPT ![d].hasSrc = TRUE, ![d].src = rec.code.v,
                            ![d].srcName = SourceName(rec.backend, rec.mainClassName)]
        /\ req' = [req EXCEPT ![r] =
                     Spawned(rec, IF rec.backend \in TwoStep THEN "compiling" ELSE "running")]
     \/ /\ \E e \in WriteFileErrors : req' = [req EXCEPT ![r] = Caught(rec, e)]
        /\ UNCHANGED fs
  /\ UNCHANGED <<now, alive, tracked>>

\* the moment a subprocess started at procStart can end with outcome out
EndsNow(procStart, out) ==
  IF out.cause = "timeout" THEN now = ExecDeadline(procStart)
  ELSE now <= ExecDeadline(procStart)

\* CompileReturns of a catch block without its return statement
CompileReturns_FallsThrough(out) == FALSE

\* the compile step returns or falls through to the run step
CompileReturns(out) == ~out.ok

\* the compiler subprocess of a two-step backend ends
CompileDone(r) ==
  /\ alive
  /\ req[r].pc = "compiling"
  /\ LET rec == req[r]
         d == rec.tmpDir IN
     \E out \in CompileOutcomes(fs[d].src) :
       /\ EndsNow(rec.procStart, out)
       /\ fs' = IF out.ok THEN [fs EXCEPT ![d].hasArtifact = TRUE, ![d].artifact = fs[d].src]
                ELSE fs
       /\ req' = [req EXCEPT ![r] =
                    IF CompileReturns(out)
                    THEN Resolved([rec EXCEPT !.compileOut = out],
                                  CompileFailure(out, now - rec.startTime))
                    ELSE Spawned([rec EXCEPT !.compileOut = out], "running")]
  /\ UNCHANGED <<now, alive, tracked>>

\* the subprocess of the run step ends
RunDone(r) ==
  /\ alive
  /\ req[r].pc = "running"
  /\ LET rec == req[r]
         d == rec.tmpDir
         program == IF rec.backend \in TwoStep THEN fs[d].artifact ELSE fs[d].src IN
     \E out \in ExecOutcomes(program) :
       /\ EndsNow(rec.procStart, out)
       /\ req' = [req EXCEPT ![r] =
                    Resolved([rec EXCEPT !.runOut = out],
                             IF out.ok THEN RunSuccess(out, now - rec.startTime)
                             ELSE RunFailure(rec.backend, out, now - rec.startTime))]
  /\ UNCHANGED <<now, alive, fs, tracked>>

\* time passes while a subprocess runs: only while no call has a step to take
\* at once, and never past the moment a running subprocess is killed
Tick ==
  /\ alive
  /\ now < MaxTime
  /\ \E r \in Reqs : req[r].pc \in {"compiling", "running"}
  /\ \A r \in Reqs :
       \/ req[r].pc \in {"idle", "done"}
       \/ /\ req[r].pc \in {"compiling", "running"}
          /\ now < ExecDeadline(req[r].procStart)
  /\ now' = now + 1
  /\ UNCHANGED <<alive, fs, tracked, req>>

\* the server process exits: temp.track() removes the directories it created
ProcessExit ==
  /\ alive
  /\ alive' = FALSE
  /\ fs' = [d \in DirNames |-> IF d \in tracked THEN NoDir ELSE fs[d]]
  /\ tracked' = {}
  /\ UNCHANGED <<now, req>>

\* a call of the exported checkSyntax
CheckSyntax(r) ==
  /\ alive
  /\ req[r].pc = "idle"
  /\ req[r].via = "checkSyntax"
  /\ req' = [req EXCEPT ![r].pc = "done",
                        ![r].syntaxCheck = checkSyntax(req[r].code.v, req[r].language.v)]
  /\ UNCHANGED <<now, alive, fs, tracked>>

\* a call of the exported isSupportedLanguage
IsSupportedLanguage(r) ==
  /\ alive
  /\ req[r].pc = "idle"
  /\ req[r].via = "isSupportedLanguage"
  /\ req' = [req EXCEPT ![r].pc = "done",
                        ![r].supported = isSupportedLanguage(req[r].language.v)]
  /\ UNCHANGED <<now, alive, fs, tracked>>

NextFunctions ==
  \/ \E r \in Reqs : CheckSyntax(r)
  \/ \E r \in Reqs : IsSupportedLanguage(r)

Next ==
  \/ \E r \in Reqs : CompileCode(r)
  \/ \E r \in Reqs : ExecuteCode(r)
  \/ \E r \in Reqs : WriteFileDone(r)
  \/ \E r \in Reqs : CompileDone(r)
  \/ \E r \in Reqs : RunDone(r)
  \/ Tick
  \/ ProcessExit

Spec == Init /\ [][Next]_vars

SpecConcurrent == InitConcurrent /\ [][Next]_vars

SpecFunctions == InitFunctions /\ [][NextFunctions]_vars

\* ------------------------------------------------------------------ claims
EightLanguages == {L_c, L_cpp, L_python, L_javascript, L_typescript, L_java, L_php, L_go}

\* the call has entered a backend that works in a workspace
InBackend(rec) == rec.executeCalls = 1 /\ rec.backend \in Backends

CompileFailed(rec) == rec.compileOut.cause # "none" /\ ~rec.compileOut.ok
RunFailed(rec) == rec.runOut.cause # "none" /\ ~rec.runOut.ok
RunSucceeded(rec) == rec.runOut.cause # "none" /\ rec.runOut.ok
TimedOut(rec) == rec.compileOut.cause = "timeout" \/ rec.runOut.cause = "timeout"
NoPublicClass(rec) ==
  rec.executeCalls = 1 /\ rec.backend = "compileAndRunJava" /\ ~HasPublicClass(rec.code.v)

\* a compile failure, a run failure or an exception occurred in the call
Failed(rec) == rec.threw \/ CompileFailed(rec) \/ RunFailed(rec) \/ NoPublicClass(rec)

\* C1: while the server process runs, the workspace directory of a call that
\* has returned its result no longer exists.
C1_WorkspaceRemovedOnReturn ==
  \A r \in Reqs :
    (alive /\ req[r].pc = "done" /\ req[r].tmpDir # 0) => ~fs[req[r].tmpDir].exists

\* C2: a call in which a backend step threw outside the inner try/catch
\* (creating the workspace, writing the source file) still resolves: the result
\* has output '' and the message of the exception as error ('Unknown execution
\* error' for a value that is not an Error), executionTime >= 0, and the
\* request handler answers 200, never 500.
C2_ExecuteCodeNeverRejects ==
  \A r \in Reqs :
    LET rec == req[r] IN
    /\ rec.threw =>
         /\ rec.pc = "done" /\ rec.hasResult
         /\ rec.result.output = Empty
         /\ rec.thrown.isError => rec.result.error = rec.thrown.message
         /\ ~rec.thrown.isError => rec.result.error = Str("Unknown execution error")
    /\ (rec.pc = "done" /\ rec.executeCalls = 1) =>
         /\ rec.hasResult
         /\ rec.result.executionTime >= 0
         /\ rec.via = "http" => rec.response.status = 200

\* C2 witness: writing the source file was rejected with a value that is not
\* an Error and the call has resolved.
C2_Witness ==
  \E r \in Reqs :
    req[r].threw /\ ~req[r].thrown.isError /\ req[r].tmpDir # 0 /\ req[r].pc = "done"

\* C3: in the two-step backends a failed compiler invocation ends the call with
\* output '' and error = the compiler's stderr or 'Compilation error', and no
\* run subprocess is started; a run subprocess is started only after a compile
\* that succeeded.
C3_CompileFailureSkipsRun ==
  \A r \in Reqs :
    LET rec == req[r] IN
    rec.backend \in TwoStep =>
      /\ CompileFailed(rec) =>
           /\ rec.pc = "done" /\ rec.hasResult
           /\ rec.spawned = <<"compiling">>
           /\ rec.result.output = Empty
           /\ rec.result.error =
                IF rec.compileOut.stderr = Empty THEN Str("Compilation error")
                ELSE rec.compileOut.stderr
      /\ (\E i \in DOMAIN rec.spawned : rec.spawned[i] = "running") =>
           (rec.compileOut.cause # "none" /\ rec.compileOut.ok)

\* C3 witness: javac was killed at the timeout without any stderr captured.
C3_Witness ==
  \E r \in Reqs :
    /\ req[r].backend = "compileAndRunJava"
    /\ req[r].compileOut.cause = "timeout"
    /\ req[r].compileOut.stderr = Empty
    /\ req[r].pc = "done"

\* C4 as stated: in every result error is non-null exactly when a failure
\* occurred, so it is null after a successful run even if the run wrote to
\* standard error.
C4_ErrorIffFailure ==
  \A r \in Reqs :
    req[r].hasResult => ((req[r].result.error # Null) <=> Failed(req[r]))

\* C4 amended: in every result error is non-null exactly when a failure
\* occurred or the successful run wrote text to standard error, and in the
\* latter case error is that text.
C4_ErrorIffFailureOrStderr ==
  \A r \in Reqs :
    LET rec == req[r] IN
    rec.hasResult =>
      /\ (rec.result.error # Null) <=>
           (Failed(rec) \/ (RunSucceeded(rec) /\ rec.runOut.stderr # Empty))
      /\ (RunSucceeded(rec) /\ rec.runOut.stderr # Empty) =>
           rec.result.error = rec.runOut.stderr

\* C4 witness: a run that exited with code 0 and wrote to standard error.
C4_Witness ==
  \E r \in Reqs :
    req[r].hasResult /\ RunSucceeded(req[r]) /\ req[r].runOut.stderr # Empty

\* C5: for every language string that isSupportedLanguage accepts and whose
\* normalized form is one of the eight toolchain languages, executeCode runs
\* the backend of the normalized identifier.
C5_RoutesNormalizedLanguage ==
  \A r \in Reqs :
    LET rec == req[r] IN
    ( /\ rec.executeCalls = 1
      /\ isSupportedLanguage(rec.language.v)
      /\ normalizeLanguageId(rec.language.v) \in EightLanguages )
    => /\ rec.backend # "simulateExecution"
       /\ rec.backend = Route(normalizeLanguageId(rec.language.v))

\* C6: executeCode routes exactly the eight identifiers to their backend and
\* every other identifier to simulateExecution; on the simulator route no
\* workspace is created, no subprocess is spawned and the result has error null.
C6_RoutingAndSimulator ==
  \A r \in Reqs :
    LET rec == req[r]
        l == rec.language.v IN
    rec.executeCalls = 1 =>
      /\ l = L_c => rec.backend = "compileAndRunC"
      /\ l = L_cpp => rec.backend = "compileAndRunCpp"
      /\ l = L_python => rec.backend = "runPython"
      /\ l = L_javascript => rec.backend = "runJavaScript"
      /\ l = L_typescript => rec.backend = "runTypeScript"
      /\ l = L_java => rec.backend = "compileAndRunJava"
      /\ l = L_php => rec.backend = "runPhp"
      /\ l = L_go => rec.backend = "compileAndRunGo"
      /\ l \notin EightLanguages =>
           /\ rec.backend = "simulateExecution"
           /\ rec.pc = "done" /\ rec.hasResult
           /\ rec.tmpDir = 0
           /\ \A d \in DirNames : ~fs[d].exists
           /\ tracked = {}
           /\ rec.spawned = << >>
           /\ rec.result.error = Null

\* C6 witness: executeCode was called with an identifier outside the registry
\* and answered from the simulator.
C6_Witness ==
  \E r \in Reqs :
    /\ req[r].language.v = <<"r", "u", "b", "y">>
    /\ req[r].executeCalls = 1
    /\ req[r].result.output = MsgNotImplemented

\* C7: compileCode calls executeCode only when both fields are present, the
\* language is supported and the syntax check reports no error; a request that
\* fails one of these gets status 400 with the message of the first check it
\* fails, and no workspace and no subprocess exist for it.
C7_GatesBeforeExecution ==
  \A r \in Reqs :
    LET rec == req[r]
        rejected ==
          /\ rec.response.status = 400
          /\ rec.executeCalls = 0
          /\ rec.tmpDir = 0 /\ rec.spawned = << >>
          /\ \A d \in DirNames : ~fs[d].exists
    IN
    (rec.via = "http" /\ rec.pc # "idle") =>
      /\ rec.executeCalls = 1 =>
           /\ ~Falsy(rec.code) /\ ~Falsy(rec.language)
           /\ isSupportedLanguage(rec.language.v)
           /\ ~checkSyntax(rec.code.v, rec.language.v).hasError
      /\ (Falsy(rec.code) \/ Falsy(rec.language)) =>
           /\ rejected
           /\ rec.response.error = Str("Code and language are required")
      /\ ( /\ ~Falsy(rec.code) /\ rec.language.t = "string" /\ rec.language.v # << >>
           /\ ~isSupportedLanguage(rec.language.v) ) =>
           /\ rejected
           /\ rec.response.error =
                StrOf("Language '${language}' is not supported", rec.language.v)
      /\ ( /\ rec.code.t = "string" /\ rec.code.v # << >>
           /\ rec.language.t = "string" /\ isSupportedLanguage(rec.language.v)
           /\ checkSyntax(rec.code.v, rec.language.v).hasError ) =>
           /\ rejected
           /\ rec.response.error = checkSyntax(rec.code.v, rec.language.v).errorMessage

\* C7 witness: a C request without a main function was answered 400 by the
\* syntax check.
C7_Witness ==
  \E r \in Reqs :
    /\ req[r].via = "http"
    /\ req[r].language.v = L_c
    /\ req[r].code.v = CodeClassA
    /\ req[r].response.status = 400

\* C8: when the run subprocess fails (non-zero exit, timeout or maxBuffer
\* alike) the result has output = the captured stdout ('' if none) and error =
\* the captured stderr, or 'Runtime error' when none was captured
\* ('Compilation or runtime error' for Go).
C8_RunFailureResult ==
  \A r \in Reqs :
    LET rec == req[r] IN
    RunFailed(rec) =>
      /\ rec.pc = "done" /\ rec.hasResult
      /\ rec.result.output = rec.runOut.stdout
      /\ rec.runOut.stderr # Empty => rec.result.error = rec.runOut.stderr
      /\ (rec.runOut.stderr = Empty /\ rec.backend # "compileAndRunGo") =>
           rec.result.error = Str("Runtime error")
      /\ (rec.runOut.stderr = Empty /\ rec.backend = "compileAndRunGo") =>
           rec.result.error = Str("Compilation or runtime error")

\* C8 witness: 'go run' produced more output than maxBuffer and no stderr.
C8_Witness ==
  \E r \in Reqs :
    /\ req[r].backend = "compileAndRunGo"
    /\ req[r].runOut.cause = "maxBuffer"
    /\ req[r].runOut.stderr = Empty
    /\ req[r].hasResult

\* number of subprocesses a backend starts one after the other
Steps(backend) == IF backend \in TwoStep THEN 2 ELSE 1

\* time since the start of the call (the executionTime of its result once it
\* has one)
Elapsed(rec) == IF rec.hasResult THEN rec.result.executionTime ELSE now - rec.startTime

\* C9 as stated: a call with a subprocess killed at the timeout resolves with
\* a non-null error within EXECUTION_TIMEOUT from the start of the call, in
\* every backend (steps other than subprocesses take no time here, so the
\* small overhead is zero).
C9_ResolvesWithinTimeout ==
  \A r \in Reqs :
    TimedOut(req[r]) =>
      /\ req[r].hasResult /\ req[r].result.error # Null
      /\ req[r].result.executionTime <= EXECUTION_TIMEOUT

\* C9 amended: a call with a subprocess killed at the timeout resolves with a
\* non-null error; from its start a call lasts at most EXECUTION_TIMEOUT in a
\* one-step backend and twice EXECUTION_TIMEOUT in a two-step backend.
C9_ResolvesWithinTimeoutPerStep ==
  \A r \in Reqs :
    LET rec == req[r] IN
    /\ TimedOut(rec) => (rec.pc = "done" /\ rec.hasResult /\ rec.result.error # Null)
    /\ InBackend(rec) => Elapsed(rec) <= Steps(rec.backend) * EXECUTION_TIMEOUT

\* C9 witness: gcc ended just inside the timeout, the program was killed at its
\* own timeout, and the call took twice EXECUTION_TIMEOUT.
C9_Witness ==
  \E r \in Reqs :
    /\ req[r].backend = "compileAndRunC"
    /\ req[r].runOut.cause = "timeout"
    /\ req[r].hasResult
    /\ req[r].result.executionTime = 2 * EXECUTION_TIMEOUT

\* C10: with two calls in flight, the calls have distinct workspaces, every
\* file of a workspace holds the source of the call that owns it, and the
\* streams in a call's result are those of its own source.
C10_ConcurrentCallsIsolated ==
  \A r \in Reqs :
    LET rec == req[r]
        d == rec.tmpDir IN
    /\ \A q \in Reqs : (q # r /\ d # 0) => req[q].tmpDir # d
    /\ (alive /\ d # 0) =>
         /\ fs[d].exists
         /\ fs[d].affix = Affix(rec.backend)
         /\ fs[d].hasSrc => fs[d].src = rec.code.v
         /\ fs[d].hasArtifact => fs[d].artifact = rec.code.v
         /\ rec.pc \in {"compiling", "running"} => fs[d].hasSrc
         /\ (rec.pc = "running" /\ rec.backend \in TwoStep) => fs[d].hasArtifact
    /\ rec.hasResult =>
         /\ rec.result.output.kind = "stdout" => rec.result.output = StdoutOf(rec.code.v)
         /\ rec.result.error.kind = "stderr" => rec.result.error = StderrOf(rec.code.v)
    /\ RunSucceeded(rec) => rec.result.output = StdoutOf(rec.code.v)

\* C10 witness: two python calls with different sources overlapped (the second
\* started while the first had its workspace) and each returned the output of
\* its own source.
C10_Witness ==
  /\ Len(req) = 2
  /\ req[1].backend = "runPython" /\ req[2].backend = "runPython"
  /\ req[1].code # req[2].code
  /\ RunSucceeded(req[1]) /\ RunSucceeded(req[2])
  /\ req[1].startTime < req[2].startTime
  /\ req[2].startTime < req[1].startTime + req[1].result.executionTime


\* C11: whenever executeCode returned a result to compileCode the response is
\* 200 with success = true and output, error and executionTime of the result,
\* also when the result carries an error; 400 is sent only to requests that
\* were rejected before execution and 500 only when the controller itself
\* threw (a field that is not a string).
C11_ResultAlwaysAnswered200 ==
  \A r \in Reqs :
    LET rec == req[r] IN
    rec.via = "http" =>
      /\ rec.hasResult =>
           /\ rec.response.status = 200
           /\ rec.response.success
           /\ rec.response.output = rec.result.output
           /\ rec.response.error = rec.result.error
           /\ rec.response.executionTime = rec.result.executionTime
      /\ rec.response.status = 400 =>
           /\ rec.executeCalls = 0 /\ ~rec.hasResult
           /\ \/ Falsy(rec.code) \/ Falsy(rec.language)
              \/ ~isSupportedLanguage(rec.language.v)
              \/ checkSyntax(rec.code.v, rec.language.v).hasError
      /\ rec.response.status = 500 =>
           /\ rec.executeCalls = 0 /\ ~rec.hasResult
           /\ rec.code.t # "string" \/ rec.language.t # "string"
      /\ rec.response.status \in {0, 200, 400, 500}

\* C11 witness: a run that failed was answered 200 with its error.
C11_Witness ==
  \E r \in Reqs :
    /\ req[r].via = "http"
    /\ RunFailed(req[r])
    /\ req[r].response.status = 200
    /\ req[r].response.error = Str("Runtime error")


\* what C12 says of compileAndRunJava, the text of the error being msg
JavaClassNameHandling(msg) ==
  \A r \in Reqs :
    LET rec == req[r]
        d == rec.tmpDir IN
    (rec.executeCalls = 1 /\ rec.backend = "compileAndRunJava") =>
      /\ ~includes(rec.code.v, <<"p", "u", "b", "l", "i", "c">>) =>
           /\ rec.pc = "done" /\ rec.hasResult
           /\ rec.result.output = Empty
           /\ rec.result.error = Str(msg)
           /\ d = 0 /\ tracked = {}
           /\ \A e \in DirNames : fs[e] = NoDir
           /\ rec.spawned = << >> /\ rec.commands = << >>
      /\ (alive /\ d # 0 /\ fs[d].hasSrc) =>
           \E id \in {SubSeq(rec.code.v, i, j) : i, j \in 1..Len(rec.code.v)} :
             /\ id # << >>
             /\ \A k \in 1..Len(id) : id[k] \in WordChars
             /\ includes(rec.code.v, <<"c", "l", "a", "s", "s", " ">> \o id \o <<"{">>)
             /\ fs[d].srcName = StrOf("${mainClassName}.java", id)
             /\ \A k \in 1..Len(rec.commands) :
                  /\ rec.commands[k].tmpDir = d
                  /\ rec.commands[k].source = StrOf("${mainClassName}.java", id)
                  /\ rec.commands[k].mainClassName = id

\* C12 as stated: java code without a public class declaration is answered at
\* once with output '' and error 'No public class found', with no directory,
\* file or subprocess; otherwise the source file is <Identifier>.java and the
\* run step uses the same identifier as entry class.
C12_NoPublicClassFound == JavaClassNameHandling("No public class found")

\* C12 amended: the same, the error being 'No public class found in the code'.
C12_NoPublicClassFoundInTheCode == JavaClassNameHandling("No public class found in the code")

\* C12 witness: 'public class A{}' was compiled from A.java and run with the
\* entry class A.
C12_Witness ==
  \E r \in Reqs :
    /\ req[r].backend = "compileAndRunJava"
    /\ Len(req[r].commands) = 2
    /\ req[r].commands[2].cmd = "java -cp ${tmpDir} ${mainClassName}"
    /\ req[r].commands[2].mainClassName = <<"A">>
    /\ req[r].hasResult


\* ------------------------------------------------ claims on the two checks
\* a finished call of the exported function via
Checked(r, via) == req[r].via = via /\ req[r].pc = "done"

\* the position of the quote q that closes a string whose text starts at j,
\* a backslash taking the character after it with it; 0 when there is none
RECURSIVE ClosingQuote(_, _, _)
ClosingQuote(code, q, j) ==
  IF j > Len(code) THEN 0
  ELSE IF code[j] = "\\" THEN ClosingQuote(code, q, j + 2)
  ELSE IF code[j] = q THEN j
  ELSE ClosingQuote(code, q, j + 1)

\* the position of the string still open at the end of code, reading from i
\* outside any string; 0 when every string is closed
RECURSIVE OpenString(_, _)
OpenString(code, i) ==
  IF i > Len(code) THEN 0
  ELSE IF code[i] = "\\" THEN OpenString(code, i + 2)
  ELSE IF code[i] \in {"'", "\"", BackTick}
       THEN LET e == ClosingQuote(code, code[i], i + 1)
            IN  IF e = 0 THEN i ELSE OpenString(code, e + 1)
  ELSE OpenString(code, i + 1)

KindOf(q) ==
  IF q = "'" THEN "single quote"
  ELSE IF q = "\"" THEN "double quote"
  ELSE "template literal"

\* the line of position p: one more than the newlines before it, every one counted
LineOf(code, p) == 1 + Cardinality({k \in 1..p : code[k] = "\n"})

Unterminated(code) ==
  LET p == OpenString(code, 1)
  IN  SyntaxError(Text("str",
        "SyntaxError: unterminated ${stringType} starting at line ${stringStartLine}",
        << >>, KindOf(code[p]), LineOf(code, p)))

\* C13: for javascript/typescript code that reaches the character scan (it is
\* not blank and passes the brace-balance check), checkSyntax reports an error
\* exactly when the code ends inside a single-quoted, double-quoted or template
\* string, a backslash consuming exactly the next character; the message names
\* the kind of the open string and the line on which it began, every newline
\* counted, also inside strings and directly after a backslash.
C13_ScanReportsOpenString ==
  \A r \in Reqs :
    (/\ Checked(r, "checkSyntax")
     /\ req[r].language.v \in {L_javascript, L_typescript}
     /\ trim(req[r].code.v) # << >>
     /\ ~MissingClosingBrace(req[r].code.v))
    => req[r].syntaxCheck = (IF OpenString(req[r].code.v, 1) = 0 THEN SyntaxOk
                             ELSE Unterminated(req[r].code.v))

\* a template literal opened on line 3, after an escaped and a plain newline
C13_Witness ==
  \E r \in Reqs :
    /\ Checked(r, "checkSyntax")
    /\ req[r].language.v = L_javascript
    /\ req[r].code.v = <<"\\", "\n", "\n", BackTick>>
    /\ req[r].syntaxCheck.hasError
    /\ req[r].syntaxCheck.errorMessage.typ = "template literal"
    /\ req[r].syntaxCheck.errorMessage.n = 3


\* the leading-whitespace counts of the non-blank, non-comment lines of code
\* that are indented, in order
IndentedLevels(code) ==
  LET ls == SelectSeq(SplitLines(code, 1, << >>),
                      LAMBDA l : /\ trim(l) # << >>
                                 /\ Head(trim(l)) # "#"
                                 /\ Len(l) > Len(trimStart(l)))
  IN  [k \in 1..Len(ls) |-> Len(ls[k]) - Len(trimStart(ls[k]))]

\* n is not a multiple of 2 or 4
NoMultiple(n) == n % 2 # 0 /\ n % 4 # 0

\* an indent increase whose delta to the previous non-zero indent is no multiple
BadIncrease(L) ==
  \E k \in 2..Len(L) : L[k] > L[k - 1] /\ NoMultiple(L[k] - L[k - 1])

IndentationError == SyntaxError(Str("IndentationError: inconsistent indentation detected"))

PythonChecked(r) == Checked(r, "checkSyntax") /\ req[r].language.v = L_python

\* C14 as stated: the indentation error is returned exactly when some indent,
\* that of the first or only indented line included, is no multiple of 2 or
\* 4, or some increase has a delta that is none.
C14_FlagsEveryOddIndent ==
  \A r \in Reqs :
    PythonChecked(r) =>
      LET L == IndentedLevels(req[r].code.v)
      IN  (req[r].syntaxCheck = IndentationError)
            <=> ((\E k \in 1..Len(L) : NoMultiple(L[k])) \/ BadIncrease(L))

\* C14: for python code, checkSyntax returns the inconsistent-indentation
\* error exactly when, among the indented non-blank non-comment lines, some
\* line after the first has an indent that is no multiple of 2 or 4, or an
\* indent larger than the previous indented line's by a delta that is none;
\* the first indented line is never examined.
C14_FlagsOddIndentAfterFirst ==
  \A r \in Reqs :
    PythonChecked(r) =>
      LET L == IndentedLevels(req[r].code.v)
      IN  (req[r].syntaxCheck = IndentationError)
            <=> ((\E k \in 2..Len(L) : NoMultiple(L[k])) \/ BadIncrease(L))

\* 3 spaces then 7 spaces is flagged
C14_Witness ==
  \E r \in Reqs :
    /\ PythonChecked(r)
    /\ IndentedLevels(req[r].code.v) = <<3, 7>>
    /\ req[r].syntaxCheck = IndentationError


CChecked(r) == Checked(r, "checkSyntax") /\ req[r].language.v \in {L_c, L_cpp}

HasMain(code) == includes(code, <<"m", "a", "i", "n", "(">>)
HasPrintf(code) == includes(code, <<"p", "r", "i", "n", "t", "f", "(">>)
HasSemicolon(code) == \E i \in 1..Len(code) : code[i] = ";"

\* outside string literals, character literals and comments, code has no
\* opening brace without a closing one
BracesClosed(code) ==
  LET t == CodeWithoutStrings(code)
  IN  Cardinality({i \in 1..Len(t) : t[i] = "{"}) <= Cardinality({i \in 1..Len(t) : t[i] = "}"})

\* C15 as stated: every non-empty c or cpp input that contains 'main(' and
\* whose braces are balanced passes the check, whatever else it contains.
C15_MainAndBracesSuffice ==
  \A r \in Reqs :
    (/\ CChecked(r)
     /\ req[r].code.v # << >>
     /\ HasMain(req[r].code.v)
     /\ BracesClosed(req[r].code.v))
    => ~req[r].syntaxCheck.hasError

\* C15: every non-empty c or cpp input that contains 'main(', whose braces
\* are closed once literals and comments are stripped, and that contains a
\* semicolon whenever it contains 'printf(', passes the check; an input with
\* 'printf(' and no semicolon gets the missing-semicolon error.
C15_MainBracesAndSemicolonSuffice ==
  \A r \in Reqs :
    (/\ CChecked(r)
     /\ req[r].code.v # << >>
     /\ HasMain(req[r].code.v)
     /\ BracesClosed(req[r].code.v))
    => req[r].syntaxCheck =
         (IF HasPrintf(req[r].code.v) /\ ~HasSemicolon(req[r].code.v)
          THEN SyntaxError(Str("Syntax Error: missing semicolon ';'"))
          ELSE SyntaxOk)

\* a program with main(, braces, printf( and a semicolon has passed
C15_Witness ==
  \E r \in Reqs :
    /\ CChecked(r)
    /\ HasMain(req[r].code.v)
    /\ HasPrintf(req[r].code.v)
    /\ HasSemicolon(req[r].code.v)
    /\ \E i \in 1..Len(req[r].code.v) : req[r].code.v[i] = "}"
    /\ ~req[r].syntaxCheck.hasError


\* code is empty or consists of whitespace only
Blank(code) == \A i \in 1..Len(code) : code[i] \in WhiteSpace

NoCodeError == SyntaxError(Str("No code to compile. Please enter some code."))

\* C16: for every language identifier, supported or not, checkSyntax on empty
\* or whitespace-only code returns the error 'No code to compile. Please enter
\* some code.'; for code that is not blank in java, php, go, html or css it
\* returns no error.
C16_BlankCodeAndUncheckedLanguages ==
  \A r \in Reqs :
    Checked(r, "checkSyntax") =>
      /\ Blank(req[r].code.v) => req[r].syntaxCheck = NoCodeError
      /\ (/\ ~Blank(req[r].code.v)
          /\ req[r].language.v \in {L_java, L_php, L_go, L_html, L_css})
         => req[r].syntaxCheck = SyntaxOk

\* whitespace-only code was refused for css, which has no heuristic
C16_Witness ==
  \E r \in Reqs :
    /\ Checked(r, "checkSyntax")
    /\ req[r].code.v = <<"\n", "\t">>
    /\ req[r].language.v = L_css
    /\ req[r].syntaxCheck = NoCodeError


\* a and the lower-case identifier id are the same word in some letter case
SameWord(a, id) ==
  /\ Len(a) = Len(id)
  /\ \A k \in 1..Len(id) : a[k] = id[k] \/ a[k] = UpperChar(id[k])

\* raw is id in some letter case, surrounded by whitespace only
Spells(raw, id) ==
  \E i \in 1..Len(raw) :
    /\ i + Len(id) - 1 <= Len(raw)
    /\ SameWord(SubSeq(raw, i, i + Len(id) - 1), id)
    /\ \A k \in 1..Len(raw) : (k < i \/ k >= i + Len(id)) => raw[k] \in WhiteSpace

TenIdentifiers ==
  { <<"c">>, <<"c", "p", "p">>, <<"p", "y", "t", "h", "o", "n">>,
    <<"j", "a", "v", "a", "s", "c", "r", "i", "p", "t">>,
    <<"t", "y", "p", "e", "s", "c", "r", "i", "p", "t">>, <<"j", "a", "v", "a">>,
    <<"p", "h", "p">>, <<"g", "o">>, <<"h", "t", "m", "l">>, <<"c", "s", "s">> }

\* C17: isSupportedLanguage(raw) is true for each of the ten identifiers in
\* any letter case and with any surrounding whitespace and false for every
\* other string, the empty string included; the call returns and leaves the
\* workspaces, the tracked directories and the process as they were.
C17_SupportedIffSpellsIdentifier ==
  \A r \in Reqs :
    Checked(r, "isSupportedLanguage") =>
      /\ req[r].supported <=> (\E id \in TenIdentifiers : Spells(req[r].language.v, id))
      /\ fs = [d \in DirNames |-> NoDir]
      /\ tracked = {}
      /\ alive

\* a padded upper-case spelling was accepted
C17_Witness ==
  \E r \in Reqs :
    /\ Checked(r, "isSupportedLanguage")
    /\ req[r].language.v = <<"\n", " ", "P", "Y", "T", "H", "O", "N", "\t">>
    /\ req[r].supported


\* C18: checkSyntax treats the language identifier case-insensitively and
\* trimmed: for every language string accepted by isSupportedLanguage,
\* checkSyntax(code, language) returns what it returns for the normalized
\* identifier.
C18_ChecksNormalizedLanguage ==
  \A r \in Reqs :
    (Checked(r, "checkSyntax") /\ isSupportedLanguage(req[r].language.v))
    => req[r].syntaxCheck =
         checkSyntax(req[r].code.v, normalizeLanguageId(req[r].language.v))


\* C19: a result that executeCode takes from the simulator carries one of two
\* fixed outputs, the frontend message for html and css and the 'not
\* implemented' placeholder for everything else; no result of executeCode
\* carries 'Program executed successfully with no output.' or text extracted
\* from print statements.
C19_SimulatorReturnsFixedOutputs ==
  \A r \in Reqs :
    req[r].hasResult =>
      /\ req[r].result.output # MsgNoOutput
      /\ req[r].result.output.s # "${output}"
      /\ req[r].backend = "simulateExecution" =>
           /\ req[r].language.v \notin {L_c, L_cpp, L_python, L_javascript, L_typescript}
           /\ req[r].result.output =
                (IF req[r].language.v \in {L_html, L_css} THEN MsgFrontend
                 ELSE MsgNotImplemented)

\* html code with content was answered by the simulator's frontend message
C19_Witness ==
  \E r \in Reqs :
    /\ req[r].hasResult
    /\ req[r].backend = "simulateExecution"
    /\ req[r].language.v = L_html
    /\ req[r].code.v = CodeMain
    /\ req[r].result.output = MsgFrontend


\* C20: compileCode sends one response per request and never a second one,
\* and calls executeCode at most once: a request that has ended has exactly
\* one response, a refusal (400) or a caught exception (500) without any call
\* of executeCode, a 200 after exactly one call; until then it has none.
C20_OneResponsePerRequest ==
  \A r \in Reqs :
    req[r].via = "http" =>
      /\ req[r].executeCalls <= 1
      /\ req[r].responses = (IF req[r].pc = "done" THEN 1 ELSE 0)
      /\ (req[r].response = NoResponse) <=> (req[r].responses = 0)
      /\ req[r].responses = 1 =>
           /\ req[r].response.status \in {200, 400, 500}
           /\ req[r].executeCalls = (IF req[r].response.status = 200 THEN 1 ELSE 0)

\* checkSyntax threw on code that is not a string: one 500 response
C20_Witness ==
  \E r \in Reqs :
    /\ req[r].via = "http"
    /\ req[r].code = NonString
    /\ isSupportedLanguage(req[r].language.v)
    /\ req[r].response.status = 500
    /\ req[r].responses = 1
    /\ req[r].executeCalls = 0


\* the three string flags of a scan state, and the quote that sets each
ScanFlags(st) == <<st.inSingleQuote, st.inDoubleQuote, st.inTemplateLiteral>>
QuoteOfFlag == <<"'", "\"", BackTick>>

\* the call r ran the character scan on its code
Scanned(r) ==
  /\ Checked(r, "checkSyntax")
  /\ req[r].language.v \in {L_javascript, L_typescript}
  /\ ~Blank(req[r].code.v)
  /\ ~MissingClosingBrace(req[r].code.v)

\* C21: at every step of the javascript/typescript string scan at most one of
\* inSingleQuote, inDoubleQuote, inTemplateLiteral is true; while one is true,
\* a quote character of another kind changes no flag, stringStartLine or
\* stringType, and the open string is closed by the matching quote character
\* that is not escaped, and by nothing else.
C21_OneStringAtATime ==
  \A r \in Reqs :
    Scanned(r) =>
      LET code == req[r].code.v IN
      /\ \A i \in 0..Len(code) :
           Cardinality({f \in 1..3 : ScanFlags(ScanTo(code, i))[f]}) <= 1
      /\ \A i \in 1..Len(code) : \A f \in 1..3 :
           LET st == ScanTo(code, i - 1)
               nx == ScanTo(code, i)
           IN  ScanFlags(st)[f] =>
                 /\ (code[i] \in {"'", "\"", BackTick} /\ code[i] # QuoteOfFlag[f])
                    => /\ ScanFlags(nx) = ScanFlags(st)
                       /\ nx.stringStartLine = st.stringStartLine
                       /\ nx.stringType = st.stringType
                 /\ ~ScanFlags(nx)[f] <=> (code[i] = QuoteOfFlag[f] /\ ~st.escapeNext)

\* a single-quoted string that holds a double quote and an escaped single
\* quote is still open after the last character
C21_Witness ==
  \E r \in Reqs :
    /\ Scanned(r)
    /\ req[r].code.v = <<"'", "\"", "\\", "'">>
    /\ ScanFlags(ScanTo(req[r].code.v, 4)) = <<TRUE, FALSE, FALSE>>
    /\ req[r].syntaxCheck.hasError
    /\ req[r].syntaxCheck.errorMessage.typ = "single quote"

====
